---- MODULE Spec2Model ----
(***************************************************************************)
(* Items API: the item lifecycle over one SQLite table.                    *)
(*                                                                         *)
(* The store is the table `items` behind ONE DBAPI connection: the engine  *)
(* is built with poolclass=StaticPool, so every AsyncSession of every      *)
(* request runs on the same sqlite connection and therefore inside the     *)
(* same sqlite transaction.  `committed` is the table as committed on      *)
(* disk, `working` the table as the connection sees it (committed rows     *)
(* plus the uncommitted writes of the open transaction).                   *)
(*                                                                         *)
(* A request is a FastAPI call: body / path validation (pydantic), the     *)
(* handler of main.py, one step per awaited store call, and the code of    *)
(* get_db after its yield.  Every store call may raise; the kinds of       *)
(* exception are those the handlers tell apart.                            *)
(***************************************************************************)
EXTENDS Integers, Sequences, FiniteSets

VARIABLES
    committed,     \* the rows of table items as committed
    working,       \* the rows as the connection sees them (open transaction)
    req,           \* the request of each slot
    everAssigned,  \* history: the ids of the rows a Create committed
    deletedIds,    \* history: ids whose Delete was confirmed to the client
                   \* and that no Create was assigned since
    pending        \* history: the slots with uncommitted writes

vars == <<committed, working, req, everAssigned, deletedIds, pending>>

(* ------------------------------ bounds -------------------------------- *)

\* Rows get ids in 1..MaxId: a Create is accepted only while a rowid is left.
MaxId == 2

\* Request slots: requests that can be in flight at the same time.
Slots == {1, 2}

\* The single worker of the sequential specification.
SeqSlots == {1}

(* --------------------------- field values ----------------------------- *)

\* A JSON body field: not sent, sent as null, or sent with a value.
Unset == [unset |-> TRUE]

Null == [null |-> TRUE]

Val(v) == [val |-> v]

Fields == {"name", "description", "price", "quantity"}

name_max_length == 50

description_max_length == 500

LongName == "NNNNNNNNNNNNNNNNNNNNNNNNNNNNNNNNNNNNNNNNNNNNNNNNNNN"

LongDescription == "DDDDDDDDDDDDDDDDDDDDDDDDDDDDDDDDDDDDDDDDDDDDDDDDDDDDDDDDDDDDDDDDDDDDDDDDDDDDDDDDDDDDDDDDDDDDDDDDDDDDDDDDDDDDDDDDDDDDDDDDDDDDDDDDDDDDDDDDDDDDDDDDDDDDDDDDDDDDDDDDDDDDDDDDDDDDDDDDDDDDDDDDDDDDDDDDDDDDDDDDDDDDDDDDDDDDDDDDDDDDDDDDDDDDDDDDDDDDDDDDDDDDDDDDDDDDDDDDDDDDDDDDDDDDDDDDDDDDDDDDDDDDDDDDDDDDDDDDDDDDDDDDDDDDDDDDDDDDDDDDDDDDDDDDDDDDDDDDDDDDDDDDDDDDDDDDDDDDDDDDDDDDDDDDDDDDDDDDDDDDDDDDDDDDDDDDDDDDDDDDDDDDDDDDDDDDDDDDDDDDDDDDDDDDDDDDDDDDDDDDDDDDDDDDDDDDDDDDDDDDDDDDDDDDDDDDDDDDDDDDDDDDDDDDDDDDDDDDDDDDD"

\* Prices on the wire are decimals, written here in thousandths (9999 is
\* 9.999); prices in the table have two places and are written in cents.
\* Decimal.quantize(Decimal('0.01')) under the default context rounds
\* half to even.
quantize(mills) ==
    LET q == mills \div 10
        rem == mills % 10
    IN  IF rem > 5 THEN q + 1
        ELSE IF rem < 5 THEN q
        ELSE IF q % 2 = 0 THEN q ELSE q + 1

(* ----------------------------- inputs --------------------------------- *)

\* create_item / update_item bodies: one well-formed body and the bodies
\* that differ from it in one field, the body holding only quantity, and
\* the empty body.
BaseBody ==
    [name |-> Val("Widget"), description |-> Unset,
     price |-> Val(9999), quantity |-> Val(5)]

NameInputs == {Unset, Null, Val(""), Val(LongName)}

DescriptionInputs == {Null, Val("d"), Val(LongDescription)}

PriceInputs == {Unset, Null, Val(-10), Val(5)}

QuantityInputs == {Unset, Null, Val(-1), Val(3)}

OnlyQuantity ==
    [name |-> Unset, description |-> Unset, price |-> Unset, quantity |-> Val(3)]

EmptyBody ==
    [name |-> Unset, description |-> Unset, price |-> Unset, quantity |-> Unset]

Bodies ==
    {BaseBody, OnlyQuantity, EmptyBody}
      \cup {[BaseBody EXCEPT !.name = v] : v \in NameInputs}
      \cup {[BaseBody EXCEPT !.description = v] : v \in DescriptionInputs}
      \cup {[BaseBody EXCEPT !.price = v] : v \in PriceInputs}
      \cup {[BaseBody EXCEPT !.quantity = v] : v \in QuantityInputs}

\* The bodies of the concurrent specification.
ConcBodies == {BaseBody, [BaseBody EXCEPT !.quantity = Val(3)], OnlyQuantity}

ItemIds == 1..MaxId

\* What a store call can raise: OperationalError whose text holds "locked",
\* any other OperationalError, IntegrityError, any other exception.
StoreErrors == {"locked", "operational", "integrity", "other"}

NoErrors == {}

StoreResults(errors) == {"ok"} \cup errors

(* --------------------------- validation ------------------------------- *)

\* Field(..., min_length=1, max_length=50) on str.
name_ok(v) ==
    /\ v \notin {Unset, Null}
    /\ Len(v.val) >= 1
    /\ Len(v.val) <= name_max_length

\* Field(None, max_length=500) on Optional[str].
description_ok(v) ==
    v \in {Unset, Null} \/ Len(v.val) <= description_max_length

\* A price field without its ge=0 constraint.
price_unchecked(v) == v \notin {Unset, Null}

\* Field(..., ge=0) on Decimal, then validate_price.
price_ok(v) ==
    /\ v \notin {Unset, Null}
    /\ v.val >= 0

\* Field(..., ge=0) on int.
quantity_ok(v) ==
    /\ v \notin {Unset, Null}
    /\ v.val >= 0

\* ItemCreate(ItemBase): name, price, quantity required and not null.
ValidItemCreate(body) ==
    /\ name_ok(body.name)
    /\ description_ok(body.description)
    /\ price_ok(body.price)
    /\ quantity_ok(body.quantity)

\* An update schema whose every field has a default (none is required).
PartialItemUpdate(body) ==
    /\ body.name \in {Unset, Null} \/ name_ok(body.name)
    /\ description_ok(body.description)
    /\ body.price \in {Unset, Null} \/ price_ok(body.price)
    /\ body.quantity \in {Unset, Null} \/ quantity_ok(body.quantity)

\* ItemUpdate: name, price and quantity are Optional[...] = Field(...):
\* they may be null but are REQUIRED (the default is Ellipsis); only
\* description has a default.
ValidItemUpdate(body) ==
    /\ body.name # Unset
    /\ body.name = Null \/ name_ok(body.name)
    /\ description_ok(body.description)
    /\ body.price # Unset
    /\ body.price = Null \/ price_ok(body.price)
    /\ body.quantity # Unset
    /\ body.quantity = Null \/ quantity_ok(body.quantity)

\* The validated model's value of a field: validate_price quantizes.
validated(body, f) ==
    IF f = "price" /\ body[f] \notin {Unset, Null}
    THEN Val(quantize(body[f].val))
    ELSE body[f]

\* ItemBase.dict() of a validated ItemCreate: every field, description
\* defaulting to None.  (dict() hands the price over as str; the Numeric
\* column gives it back as a Decimal of two places: the same cents.)
item_dict(body) ==
    [f \in Fields |->
        IF body[f] = Unset THEN Null ELSE validated(body, f)]

\* item.model_dump(exclude_unset=True): the fields that were sent.
update_data_keys(body) == {f \in Fields : body[f] # Unset}

update_data(body, f) == validated(body, f)

(* ------------------------------ store --------------------------------- *)

Ids(table) == {row.id : row \in table}

RowOf(table, id) == CHOOSE row \in table : row.id = id

SetMax(S) == CHOOSE m \in S : \A n \in S : n <= m

\* A rowid that repeats the largest one in the table.
LargestRowId(table) == IF table = {} THEN 1 ELSE SetMax(Ids(table))

\* id = Column(Integer, primary_key=True) on SQLite is the rowid without
\* AUTOINCREMENT: one more than the largest rowid now in the table.
NextRowId(table) == IF table = {} THEN 1 ELSE SetMax(Ids(table)) + 1

\* INSERT INTO items: models.Item(**item.dict()).
InsertRow(table, d) ==
    table \cup {[id |-> NextRowId(table), name |-> d.name.val,
                 description |-> d.description,
                 price |-> d.price.val, quantity |-> d.quantity.val]}

\* nullable=False on name, price, quantity: UPDATE ... SET col = NULL fails.
violates_not_null(body) ==
    \E f \in update_data_keys(body) \ {"description"} : body[f] = Null

\* UPDATE items SET <update_data> WHERE id = item_id.
UpdateRow(table, id, body) ==
    LET keys == update_data_keys(body)
        set(row) ==
            [id |-> row.id,
             name |-> IF "name" \in keys
                      THEN update_data(body, "name").val ELSE row.name,
             description |-> IF "description" \in keys
                      THEN update_data(body, "description") ELSE row.description,
             price |-> IF "price" \in keys
                      THEN update_data(body, "price").val ELSE row.price,
             quantity |-> IF "quantity" \in keys
                      THEN update_data(body, "quantity").val ELSE row.quantity]
    IN  {IF row.id = id THEN set(row) ELSE row : row \in table}

\* DELETE FROM items WHERE id = item_id.
DeleteRow(table, id) == {row \in table : row.id # id}

(* ----------------------------- outcomes ------------------------------- *)

Outcome(status, detail) == [status |-> status, detail |-> detail]

NoOutcome == Outcome(0, "")

\* The error kinds of the error taxonomy, by status and message.
Kind(o) ==
    CASE o.status = 404 -> "NotFound"
      [] o.status = 422 -> "ValidationError"
      [] o.status = 400 /\ o.detail = "No fields to update provided" -> "ValidationError"
      [] o.status = 400 -> "IntegrityError"
      [] o.status = 500 /\ o.detail = "Database is busy, please try again later" -> "Busy"
      [] o.status = 500 -> "StorageError"
      [] OTHER -> "Success"

(* ----------------------------- requests ------------------------------- *)

\* No row loaded: scalar_one_or_none() gave None, or nothing was read yet.
NoRow == [id |-> 0, name |-> "", description |-> Null, price |-> 0, quantity |-> 0]

\* A request: where it stands (pc), what was asked (op, item_id, body), the
\* handler's locals (attempt, db_item, existing_item), and what it did so
\* far: the delays slept, the store exceptions met, whether a store call
\* was issued (touched), whether a commit changed the table (changed),
\* whether its Create got an id assigned before (reused), whether it is a
\* Get of an id whose Delete was confirmed (after_delete).
IdleRequest ==
    [pc |-> "idle", op |-> "none", item_id |-> 0, body |-> EmptyBody,
     attempt |-> 0, delays |-> <<>>, errs |-> <<>>, outcome |-> NoOutcome,
     db_item |-> 0, existing_item |-> NoRow, touched |-> FALSE,
     changed |-> FALSE, reused |-> FALSE, after_delete |-> FALSE]

Free(r) == req[r].pc = "idle"

NewRequest(op, id, body, pc) ==
    [IdleRequest EXCEPT !.pc = pc, !.op = op, !.item_id = id, !.body = body,
                        !.after_delete = (op = "get_item" /\ id \in deletedIds)]

\* RequestValidationError: FastAPI answers 422 before the handler runs; the
\* session of get_db was never used.
Rejected(op, id, body) ==
    [NewRequest(op, id, body, "done") EXCEPT
        !.outcome = Outcome(422, "validation error")]

Init ==
    /\ committed = {}
    /\ working = {}
    /\ req = [r \in Slots |-> IdleRequest]
    /\ everAssigned = {}
    /\ deletedIds = {}
    /\ pending = {}

(* ------------------------- session and get_db ------------------------- *)

\* session.rollback(): ROLLBACK on the one connection.
Rollback ==
    /\ working' = committed
    /\ pending' = {}
    /\ UNCHANGED committed

\* session.commit(): COMMIT on the one connection.
Commit ==
    /\ committed' = working
    /\ pending' = {}
    /\ UNCHANGED working

\* The handler leaves with `o` (a returned value or a raised HTTPException)
\* after store exception `e` ("none": no store call raised).
Leave(r, e, o) ==
    req' = [req EXCEPT ![r] =
              [@ EXCEPT !.pc = "exit", !.outcome = o, !.touched = TRUE,
                        !.errs = IF e = "none" THEN @ ELSE Append(@, e)]]

\* get_db after its yield: commit when the handler returned, rollback and
\* re-raise when it raised.  An exception of that commit is rolled back and
\* re-raised; whether the client still gets the handler's response or a 500
\* depends on when the framework sends the response.
GetDbExit(r, errors) ==
    /\ req[r].pc = "exit"
    /\ UNCHANGED everAssigned
    /\ IF req[r].outcome.status < 400
       THEN \E res \in StoreResults(errors) :
              IF res = "ok"
              THEN /\ Commit
                   /\ req' = [req EXCEPT ![r].pc = "done",
                                          ![r].changed = @ \/ working # committed]
                   /\ deletedIds' =
                        IF req[r].op = "delete_item"
                        THEN deletedIds \cup {req[r].item_id} ELSE deletedIds
              ELSE /\ Rollback
                   /\ \E o \in {req[r].outcome, Outcome(500, "Internal Server Error")} :
                        /\ req' = [req EXCEPT ![r] =
                                     [@ EXCEPT !.pc = "done", !.outcome = o,
                                               !.errs = Append(@, "exit")]]
                        /\ deletedIds' =
                             IF req[r].op = "delete_item" /\ o.status < 400
                             THEN deletedIds \cup {req[r].item_id} ELSE deletedIds
       ELSE /\ Rollback
            /\ req' = [req EXCEPT ![r].pc = "done"]
            /\ UNCHANGED deletedIds

\* finally: await session.close(): the request is over.
Close(r) ==
    /\ req[r].pc = "done"
    /\ req' = [req EXCEPT ![r] = IdleRequest]
    /\ UNCHANGED <<committed, working, everAssigned, deletedIds, pending>>

(* ----------------------------- create_item ---------------------------- *)

\* A rowid in 1..MaxId is left for this Create and the Creates in flight.
RowIdLeft ==
    NextRowId(working)
      + Cardinality({s \in Slots : req[s].pc = "flush" /\ req[s].op = "create_item"})
        <= MaxId

StartCreate(r, bodies) ==
    /\ Free(r)
    /\ \E body \in bodies :
         IF ValidItemCreate(body)
         THEN /\ RowIdLeft
              /\ req' = [req EXCEPT ![r] = NewRequest("create_item", 0, body, "flush")]
         ELSE req' = [req EXCEPT ![r] = Rejected("create_item", 0, body)]
    /\ UNCHANGED <<committed, working, everAssigned, deletedIds, pending>>

\* except IntegrityError / except Exception of create_item.
CreateExcept(r, e) ==
    /\ Rollback
    /\ Leave(r, e, IF e = "integrity"
                   THEN Outcome(400, "Database integrity error")
                   ELSE Outcome(500, "Internal server error"))
    /\ UNCHANGED <<everAssigned, deletedIds>>

\* db.add(db_item); db.commit(), first half: the flush, INSERT.
CreateFlush(r, errors) ==
    /\ req[r].pc = "flush"
    /\ req[r].op = "create_item"
    /\ \E res \in StoreResults(errors) :
         IF res = "ok"
         THEN LET id == NextRowId(working)
              IN  /\ working' = InsertRow(working, item_dict(req[r].body))
                  /\ req' = [s \in Slots |->
                               IF s = r
                               THEN [req[s] EXCEPT !.pc = "commit", !.db_item = id,
                                                   !.touched = TRUE,
                                                   !.reused = (id \in everAssigned)]
                               ELSE IF /\ req[s].op = "get_item"
                                       /\ req[s].item_id = id
                                       /\ req[s].pc # "done"
                               THEN [req[s] EXCEPT !.after_delete = FALSE]
                               ELSE req[s]]
                  /\ deletedIds' = deletedIds \ {id}
                  /\ UNCHANGED everAssigned
                  /\ pending' = pending \cup {r}
                  /\ UNCHANGED committed
         ELSE CreateExcept(r, res)

\* db.commit(), second half: COMMIT.
CreateCommit(r, errors) ==
    /\ req[r].pc = "commit"
    /\ req[r].op = "create_item"
    /\ \E res \in StoreResults(errors) :
         IF res = "ok"
         THEN /\ Commit
              /\ req' = [req EXCEPT ![r].pc = "reread",
                                     ![r].changed = @ \/ working # committed]
              /\ everAssigned' = everAssigned \cup ({req[r].db_item} \cap Ids(working))
              /\ UNCHANGED deletedIds
         ELSE CreateExcept(r, res)

\* select(...).where(id == db_item.id); scalar_one(); return created_item.
CreateReread(r, errors) ==
    /\ req[r].pc = "reread"
    /\ req[r].op = "create_item"
    /\ \E res \in StoreResults(errors) :
         IF res # "ok"
         THEN CreateExcept(r, res)
         ELSE IF req[r].db_item \notin Ids(working)
         THEN CreateExcept(r, "other")
         ELSE /\ Leave(r, "none", Outcome(201, "Created"))
              /\ UNCHANGED <<committed, working, everAssigned, deletedIds, pending>>

(* ------------------------------ get_item ------------------------------ *)

StartGet(r) ==
    /\ Free(r)
    /\ \E id \in ItemIds :
         req' = [req EXCEPT ![r] = NewRequest("get_item", id, EmptyBody, "select")]
    /\ UNCHANGED <<committed, working, everAssigned, deletedIds, pending>>

GetSelect(r, errors) ==
    /\ req[r].pc = "select"
    /\ req[r].op = "get_item"
    /\ \E res \in StoreResults(errors) :
         IF res # "ok"
         THEN Leave(r, res, Outcome(500, "Database error"))
         ELSE IF req[r].item_id \notin Ids(working)
         THEN Leave(r, "none", Outcome(404, "Item not found"))
         ELSE Leave(r, "none", Outcome(200, "OK"))
    /\ UNCHANGED <<committed, working, everAssigned, deletedIds, pending>>

(* ----------------------------- update_item ---------------------------- *)

max_retries == 3

\* retry_delay = 0.1 s, in milliseconds.
retry_delay == 100

StartUpdate(r, bodies) ==
    /\ Free(r)
    /\ \E id \in ItemIds, body \in bodies :
         IF ValidItemUpdate(body)
         THEN req' = [req EXCEPT ![r] = NewRequest("update_item", id, body, "select")]
         ELSE req' = [req EXCEPT ![r] = Rejected("update_item", id, body)]
    /\ UNCHANGED <<committed, working, everAssigned, deletedIds, pending>>

\* A retry test without the attempt limit.
always_retry(e, attempt) == e = "locked"

\* "locked" in str(e).lower() and attempt < max_retries - 1
should_retry(e, attempt) ==
    e = "locked" /\ attempt < max_retries - 1

\* An HTTPException raised inside the try block of update_item: the block
\* has no `except HTTPException: raise`, so `except Exception` catches it,
\* rolls back and raises 500 "Internal server error: <the exception>".
update_item_reraise(o) == Outcome(500, "Internal server error")

\* The except clauses of update_item, for store exception `e`.
UpdateExcept(r, e) ==
    /\ Rollback
    /\ UNCHANGED <<everAssigned, deletedIds>>
    /\ IF e \in {"locked", "operational"}
       THEN IF should_retry(e, req[r].attempt)
            THEN \* rollback, asyncio.sleep(retry_delay * (attempt + 1)), continue
                 LET slept == Append(req[r].delays, retry_delay * (req[r].attempt + 1))
                 IN  IF req[r].attempt + 1 < max_retries
                     THEN req' = [req EXCEPT ![r] =
                                    [@ EXCEPT !.pc = "select", !.touched = TRUE,
                                              !.attempt = @ + 1, !.delays = slept,
                                              !.errs = Append(@, e)]]
                     ELSE \* the for loop is exhausted: the raise after it
                          req' = [req EXCEPT ![r] =
                                    [@ EXCEPT !.pc = "exit", !.touched = TRUE,
                                              !.delays = slept, !.errs = Append(@, e),
                                              !.outcome = Outcome(500,
                                                 "Max retries exceeded for update operation")]]
            ELSE Leave(r, e, Outcome(500, "Database is busy, please try again later"))
       ELSE IF e = "integrity"
       THEN Leave(r, e, Outcome(400, "Database integrity error"))
       ELSE Leave(r, e, Outcome(500, "Internal server error"))

\* raise HTTPException(...) inside the try block.
UpdateRaise(r, o) ==
    /\ Rollback
    /\ UNCHANGED <<everAssigned, deletedIds>>
    /\ Leave(r, "none", update_item_reraise(o))

\* select(...).where(id == item_id); the existence check; update_data.
UpdateSelect(r, errors) ==
    /\ req[r].pc = "select"
    /\ req[r].op = "update_item"
    /\ \E res \in StoreResults(errors) :
         IF res # "ok"
         THEN UpdateExcept(r, res)
         ELSE IF req[r].item_id \notin Ids(working)
         THEN UpdateRaise(r, Outcome(404, "Item not found"))
         ELSE IF update_data_keys(req[r].body) = {}
         THEN UpdateRaise(r, Outcome(400, "No fields to update provided"))
         ELSE /\ req' = [req EXCEPT ![r].pc = "execute", ![r].touched = TRUE,
                                     ![r].existing_item =
                                         RowOf(working, req[r].item_id)]
              /\ UNCHANGED <<committed, working, everAssigned, deletedIds, pending>>

\* db.execute(update_stmt).  (update_data['price'] is a Decimal, never a
\* str, so the conversion before the statement does nothing.)
UpdateExecute(r, errors) ==
    /\ req[r].pc = "execute"
    /\ req[r].op = "update_item"
    /\ \E res \in StoreResults(errors) :
         IF res # "ok"
         THEN UpdateExcept(r, res)
         ELSE IF violates_not_null(req[r].body)
         THEN UpdateExcept(r, "integrity")
         ELSE /\ working' = UpdateRow(working, req[r].item_id, req[r].body)
              /\ pending' = pending \cup {r}
              /\ req' = [req EXCEPT ![r].pc = "commit"]
              /\ UNCHANGED <<committed, everAssigned, deletedIds>>

\* db.commit()
UpdateCommit(r, errors) ==
    /\ req[r].pc = "commit"
    /\ req[r].op = "update_item"
    /\ \E res \in StoreResults(errors) :
         IF res # "ok"
         THEN UpdateExcept(r, res)
         ELSE /\ Commit
              /\ req' = [req EXCEPT ![r].pc = "reread",
                                     ![r].changed = @ \/ working # committed]
              /\ UNCHANGED <<everAssigned, deletedIds>>

\* select(...).where(id == item_id); scalar_one(); return updated_item.
UpdateReread(r, errors) ==
    /\ req[r].pc = "reread"
    /\ req[r].op = "update_item"
    /\ \E res \in StoreResults(errors) :
         IF res # "ok"
         THEN UpdateExcept(r, res)
         ELSE IF req[r].item_id \notin Ids(working)
         THEN UpdateExcept(r, "other")
         ELSE /\ Leave(r, "none", Outcome(200, "OK"))
              /\ UNCHANGED <<committed, working, everAssigned, deletedIds, pending>>

(* ----------------------------- delete_item ---------------------------- *)

StartDelete(r) ==
    /\ Free(r)
    /\ \E id \in ItemIds :
         req' = [req EXCEPT ![r] = NewRequest("delete_item", id, EmptyBody, "select")]
    /\ UNCHANGED <<committed, working, everAssigned, deletedIds, pending>>

\* except HTTPException / except Exception of delete_item.
DeleteExcept(r, e, o) ==
    /\ Rollback
    /\ Leave(r, e, o)
    /\ UNCHANGED <<everAssigned, deletedIds>>

\* select(...).where(id == item_id); the existence check.
DeleteSelect(r, errors) ==
    /\ req[r].pc = "select"
    /\ req[r].op = "delete_item"
    /\ \E res \in StoreResults(errors) :
         IF res # "ok"
         THEN DeleteExcept(r, res, Outcome(500, "Database error"))
         ELSE IF req[r].item_id \notin Ids(working)
         THEN DeleteExcept(r, "none", Outcome(404, "Item not found"))
         ELSE /\ req' = [req EXCEPT ![r].pc = "flush", ![r].touched = TRUE]
              /\ UNCHANGED <<committed, working, everAssigned, deletedIds, pending>>

\* db.delete(db_item); db.flush(): DELETE, not committed; the confirmation
\* is returned and the commit is left to get_db.  A DELETE that matches no
\* row raises StaleDataError.
DeleteFlush(r, errors) ==
    /\ req[r].pc = "flush"
    /\ req[r].op = "delete_item"
    /\ \E res \in StoreResults(errors) :
         IF res # "ok"
         THEN DeleteExcept(r, res, Outcome(500, "Database error"))
         ELSE IF req[r].item_id \notin Ids(working)
         THEN DeleteExcept(r, "other", Outcome(500, "Database error"))
         ELSE /\ working' = DeleteRow(working, req[r].item_id)
              /\ pending' = pending \cup {r}
              /\ Leave(r, "none", Outcome(200, "Item deleted successfully"))
              /\ UNCHANGED <<committed, everAssigned, deletedIds>>

(* --------------------------- specifications --------------------------- *)

Request(r, bodies, errors) ==
    \/ StartCreate(r, bodies)
    \/ CreateFlush(r, errors)
    \/ CreateCommit(r, errors)
    \/ CreateReread(r, errors)
    \/ StartGet(r)
    \/ GetSelect(r, errors)
    \/ StartUpdate(r, bodies)
    \/ UpdateSelect(r, errors)
    \/ UpdateExecute(r, errors)
    \/ UpdateCommit(r, errors)
    \/ UpdateReread(r, errors)
    \/ StartDelete(r)
    \/ DeleteSelect(r, errors)
    \/ DeleteFlush(r, errors)
    \/ GetDbExit(r, errors)
    \/ Close(r)

\* One request at a time; every store call may raise.
Next == \E r \in SeqSlots : Request(r, Bodies, StoreErrors)

Spec == Init /\ [][Next]_vars

\* Requests interleaved at their awaits; no store call raises.
NextConc == \E r \in Slots : Request(r, ConcBodies, NoErrors)

SpecConc == Init /\ [][NextConc]_vars

(* ------------------------------ properties ---------------------------- *)

\* The handler of request r has ended: its outcome is fixed.
Ended(r) == req[r].pc \in {"exit", "done"}

\* A body field sent with a value below zero.
Negative(v) == v \notin {Unset, Null} /\ v.val < 0

Locked2 == <<"locked", "locked">>

Locked3 == <<"locked", "locked", "locked">>

\* C1: an Update of an id that is not in the store, with a body that passes
\* validation and no store call failing, ends with NotFound (404), never
\* with a server error, and leaves the store unchanged.
C1_UpdateOfMissingIdIsNotFound ==
    \A r \in Slots :
        ( /\ req[r].op = "update_item"
          /\ Ended(r)
          /\ ValidItemUpdate(req[r].body)
          /\ req[r].errs = <<>>
          /\ req[r].item_id \notin Ids(committed) )
        => /\ Kind(req[r].outcome) = "NotFound"
           /\ ~req[r].changed

\* C2: an Update of an existing item whose body holds only `quantity` is
\* accepted; after it name, description and price are what they were and
\* quantity is the value sent.
C2_QuantityOnlyUpdateMerges ==
    \A r \in Slots :
        ( /\ req[r].op = "update_item"
          /\ req[r].pc = "done"
          /\ req[r].body = OnlyQuantity
          /\ req[r].errs = <<>>
          /\ req[r].item_id \in Ids(committed) )
        => /\ req[r].outcome.status = 200
           /\ RowOf(committed, req[r].item_id) =
                [req[r].existing_item EXCEPT !.quantity = 3]

\* C3: an Update makes at most 3 attempts; after contention on attempt
\* n < 3 the transaction is rolled back, one delay is slept and attempt n+1
\* starts; contention on attempts 1 and 2 and success on attempt 3 (no
\* store call of it raises, the item is there) gives success after exactly
\* 2 delays (100 ms, 200 ms); contention on all 3 attempts gives Busy with
\* no fourth attempt and no third delay.
C3_UpdateRetryStateMachine ==
    \A r \in Slots :
        req[r].op = "update_item" =>
            /\ req[r].attempt < 3
            /\ Len(req[r].delays) = req[r].attempt
            /\ Len(req[r].delays) <= 2
            /\ (req[r].pc = "select" /\ req[r].attempt > 0) =>
                  /\ working = committed
                  /\ req[r].errs = [i \in 1..req[r].attempt |-> "locked"]
            /\ (Ended(r) /\ req[r].errs = Locked2) =>
                  /\ req[r].delays = <<100, 200>>
                  /\ req[r].item_id \in Ids(committed) =>
                        req[r].outcome.status = 200
            /\ (req[r].pc # "idle" /\ req[r].errs = Locked3) =>
                  /\ Ended(r)
                  /\ Kind(req[r].outcome) = "Busy"
                  /\ req[r].delays = <<100, 200>>

C3_Witness ==
    \E r \in Slots :
        /\ req[r].op = "update_item"
        /\ req[r].pc = "done"
        /\ req[r].errs = Locked2
        /\ req[r].outcome.status = 200
        /\ Len(req[r].delays) = 2
        /\ req[r].changed

\* C4: in Update a store failure that is not lock contention, or a
\* constraint violation, ends the operation at that attempt with no delay
\* and no further attempt and is reported with its own kind (StorageError,
\* IntegrityError); Busy is reported only when contention retries were
\* exhausted.
C4_UpdateFailureKinds ==
    \A r \in Slots :
        ( /\ req[r].op = "update_item"
          /\ req[r].errs # <<>>
          /\ req[r].errs[Len(req[r].errs)] \notin {"locked", "exit"} )
        => LET e == req[r].errs[Len(req[r].errs)]
           IN  /\ Ended(r)
               /\ Len(req[r].delays) = Len(req[r].errs) - 1
               /\ req[r].attempt = Len(req[r].errs) - 1
               /\ e \in {"operational", "other"} =>
                     Kind(req[r].outcome) = "StorageError"
               /\ e = "integrity" => Kind(req[r].outcome) = "IntegrityError"
               /\ Kind(req[r].outcome) = "Busy" => req[r].errs = Locked3

\* C5: whenever Create ends with a failure (IntegrityError or StorageError),
\* whichever step failed, the store holds exactly the rows it held before:
\* no row of the failed Create is visible.
C5_FailedCreateLeavesNoRow ==
    \A r \in Slots :
        ( /\ req[r].op = "create_item"
          /\ Ended(r)
          /\ Kind(req[r].outcome) \in {"IntegrityError", "StorageError"} )
        => /\ ~req[r].changed
           /\ req[r].db_item \notin Ids(committed)

\* C6: an Update with an empty body (no field sent) ends with
\* ValidationError, for existing and missing ids alike, before any read or
\* write is issued to the store.
C6_EmptyUpdateIsRejectedUnseen ==
    \A r \in Slots :
        ( /\ req[r].op = "update_item"
          /\ update_data_keys(req[r].body) = {} )
        => /\ req[r].pc = "done"
           /\ Kind(req[r].outcome) = "ValidationError"
           /\ ~req[r].touched
           /\ ~req[r].changed

C6_Witness ==
    \E r \in Slots :
        /\ req[r].op = "update_item"
        /\ req[r].pc = "done"
        /\ req[r].body = EmptyBody
        /\ req[r].item_id \in Ids(committed)
        /\ Ids(committed) # ItemIds
        /\ req[r].outcome.status = 422

\* C7: after a Delete of an existing id returned its confirmation, every
\* later GetByID of that id returns NotFound, until a Create assigns the id
\* again.
C7_GetAfterDeleteIsNotFound ==
    \A r \in Slots :
        ( /\ req[r].op = "get_item"
          /\ Ended(r)
          /\ req[r].after_delete
          /\ req[r].errs = <<>> )
        => Kind(req[r].outcome) = "NotFound"

\* C8: no row with price < 0 or quantity < 0 is ever written to the store,
\* and a Create with a negative price, a negative quantity or an empty name
\* ends with ValidationError without any store call.
C8_NoNegativeRowIsWritten ==
    /\ \A row \in committed \cup working : row.price >= 0 /\ row.quantity >= 0
    /\ \A r \in Slots :
        ( /\ req[r].op = "create_item"
          /\ \/ Negative(req[r].body.price)
             \/ Negative(req[r].body.quantity)
             \/ req[r].body.name = Val("") )
        => /\ req[r].pc = "done"
           /\ Kind(req[r].outcome) = "ValidationError"
           /\ ~req[r].touched
           /\ ~req[r].changed

C8_Witness ==
    \E r \in Slots :
        /\ req[r].op = "create_item"
        /\ req[r].pc = "done"
        /\ Negative(req[r].body.price)
        /\ req[r].outcome.status = 422
        /\ \E row \in committed : row.price = 0
        /\ \E row \in committed : row.quantity = 3

\* C9, as claimed: an id that was assigned to an item is never assigned to a
\* later Create, also after that item was deleted, and no Update changes an
\* item's id.
C9_IdIsNeverAssignedTwice ==
    \A r \in Slots :
        /\ ~req[r].reused
        /\ (req[r].op = "update_item" /\ req[r].pc \in {"commit", "reread"}) =>
              req[r].item_id \in Ids(working)

\* C9, as amended: an id is held by at most one stored item at a time; a
\* Create is assigned an id greater than every id then in the store (the id
\* of a deleted item can be assigned again); no Update changes an item's id.
C9_IdIsUniqueAmongStoredItems ==
    /\ Cardinality(Ids(working)) = Cardinality(working)
    /\ Cardinality(Ids(committed)) = Cardinality(committed)
    /\ \A r \in Slots :
        /\ (req[r].op = "create_item" /\ req[r].pc = "commit") =>
              /\ req[r].db_item \in Ids(working)
              /\ req[r].db_item \notin Ids(committed)
              /\ \A i \in Ids(committed) : i < req[r].db_item
        /\ (req[r].op = "update_item" /\ req[r].pc \in {"commit", "reread"}) =>
              /\ req[r].item_id \in Ids(working)
              /\ Ids(working) = Ids(committed)

C9_Witness ==
    \E r \in Slots :
        /\ req[r].op = "create_item"
        /\ req[r].pc = "done"
        /\ req[r].reused
        /\ req[r].outcome.status = 201
        /\ req[r].db_item \in Ids(committed)

\* C10: under any interleaving each operation runs in its own transaction,
\* committed or rolled back before the operation is over, and a commit or
\* rollback performed for one request never commits or discards the
\* uncommitted writes of another request.
C10_TransactionsAreIsolated ==
    [][\A r \in Slots :
          /\ (req'[r] # req[r] /\ pending # {} /\ pending' = {}) =>
                pending \subseteq {r}
          /\ req'[r].pc = "done" => r \notin pending']_vars

====
